---- MODULE Spec2Model ----
(***************************************************************************)
(* A model of the JSON / JSONL tree viewer (App and TreeNode components).  *)
(*                                                                         *)
(* Strings are sequences of one-character strings, so that toLowerCase,    *)
(* includes, startsWith, trim and join are computed character by           *)
(* character.  A JSON value is a record [t, v]: t is its kind and v its    *)
(* payload.  An object is the sequence of its <<key, value>> entries in    *)
(* the document's key order.  JavaScript's null is the JSON value Null.    *)
(***************************************************************************)
EXTENDS Integers, Sequences, FiniteSets, TLC

\* ------------------------------------------------------------------ bounds

\* Number of processFile calls in one behaviour.
MaxLoads == 2
\* Length of the windowed array of the large document DocBig.
BigLength == 250
\* The recursion depth limit of search.  The source sets 50; the model keeps
\* the comparison (depth > MAX_DEPTH) and scales the number, since the
\* documents that reach the limit must nest one level deeper than it.
MAX_DEPTH == 6

\* --------------------------------------------------------------- constants

MAX_RESULTS == 1000
\* obj.slice(0, 1000) and Object.entries(obj).slice(0, 1000)
MAX_BREADTH == 1000
\* the array page: useState(100), setVisibleCount(100), prev + 100
PAGE_SIZE == 100
\* fileSize > 5 * 1024 * 1024
LARGE_FILE_THRESHOLD == 5242880

\* ----------------------------------------------------------------- strings

Min(a, b) == IF a < b THEN a ELSE b

\* String.prototype.toLowerCase, one character.
LowerChar(c) ==
  CASE c = "A" -> "a" [] c = "B" -> "b" [] c = "C" -> "c" [] c = "K" -> "k"
    [] c = "R" -> "r" [] c = "X" -> "x" [] c = "Y" -> "y"
    [] OTHER -> c

toLowerCase(s) == [i \in 1..Len(s) |-> LowerChar(s[i])]

\* String.prototype.startsWith
startsWith(s, p) == Len(p) <= Len(s) /\ SubSeq(s, 1, Len(p)) = p

\* String.prototype.includes
includes(s, p) ==
  \E i \in 0..(Len(s) - Len(p)) : SubSeq(s, i + 1, i + Len(p)) = p

\* String.prototype.trim (the only white space of the alphabet is " ").
RECURSIVE trimStart(_)
trimStart(s) ==
  IF s # <<>> /\ Head(s) = " " THEN trimStart(Tail(s)) ELSE s

RECURSIVE trimEnd(_)
trimEnd(s) ==
  IF s # <<>> /\ s[Len(s)] = " " THEN trimEnd(SubSeq(s, 1, Len(s) - 1)) ELSE s

trim(s) == trimEnd(trimStart(s))

\* Array.prototype.join('.')
RECURSIVE join(_)
join(path) ==
  IF path = <<>> THEN <<>>
  ELSE IF Len(path) = 1 THEN path[1]
  ELSE join(SubSeq(path, 1, Len(path) - 1)) \o <<".">> \o path[Len(path)]

DigitChar(d) ==
  CASE d = 0 -> "0" [] d = 1 -> "1" [] d = 2 -> "2" [] d = 3 -> "3"
    [] d = 4 -> "4" [] d = 5 -> "5" [] d = 6 -> "6" [] d = 7 -> "7"
    [] d = 8 -> "8" [] OTHER -> "9"

\* String(n) for a natural number n.
RECURSIVE NatToString(_)
NatToString(n) ==
  IF n < 10 THEN <<DigitChar(n)>>
  ELSE NatToString(n \div 10) \o <<DigitChar(n % 10)>>

\* ------------------------------------------------------------- JSON values

Null == [t |-> "null", v |-> 0]
JBool(b) == [t |-> "bool", v |-> b]
JNum(n) == [t |-> "num", v |-> n]
JStr(s) == [t |-> "str", v |-> s]
JArr(items) == [t |-> "arr", v |-> items]
JObj(entries) == [t |-> "obj", v |-> entries]

\* Array.isArray(data)
IsArrayValue(data) == data.t = "arr"
\* typeof data === 'object' && data !== null && !Array.isArray(data)
IsObjectValue(data) == data.t = "obj"
IsPrimitiveValue(data) == ~IsObjectValue(data) /\ ~IsArrayValue(data)

\* JavaScript truthiness of a parsed JSON value: null, false, 0 and "" are falsy.
Truthy(data) ==
  CASE data.t = "null" -> FALSE
    [] data.t = "bool" -> data.v
    [] data.t = "num" -> data.v # 0
    [] data.t = "str" -> data.v # <<>>
    [] OTHER -> TRUE

\* String(obj) of a primitive value.
StringOf(obj) ==
  CASE obj.t = "null" -> <<"n", "u", "l", "l">>
    [] obj.t = "bool" ->
         IF obj.v THEN <<"t", "r", "u", "e">> ELSE <<"f", "a", "l", "s", "e">>
    [] obj.t = "num" -> NatToString(obj.v)
    [] OTHER -> obj.v

\* `[${index}]`, index counted from 0.
IndexName(index) == <<"[">> \o NatToString(index) \o <<"]">>

\* data.length of an array, Object.keys(data).length of an object.
ChildCount(data) == IF IsPrimitiveValue(data) THEN 0 ELSE Len(data.v)

\* ------------------------------------------------------------------ search

\* results.length >= MAX_RESULTS
ResultCapReached(results) == Len(results) >= MAX_RESULTS

KeyMatch(newPath) ==
  [type |-> "key", path |-> newPath, pathString |-> join(newPath)]

ValueMatch(currentPath) ==
  [type |-> "value", path |-> currentPath, pathString |-> join(currentPath)]

RECURSIVE search(_, _, _, _, _)
RECURSIVE searchItems(_, _, _, _, _, _, _)
RECURSIVE searchEntries(_, _, _, _, _, _, _)

\* The forEach callback of the array branch, for the item at 0-based index.
searchItem(item, index, currentPath, depth, lowerQuery, results) ==
  IF ResultCapReached(results) THEN results
  ELSE search(item, Append(currentPath, IndexName(index)), depth + 1,
              lowerQuery, results)

\* searchEntry with the key match pushed after the value was searched.
searchEntry_KeyAfterValue(key, value, currentPath, depth, lowerQuery, results) ==
  IF ResultCapReached(results) THEN results
  ELSE LET newPath == Append(currentPath, key)
           below == search(value, newPath, depth + 1, lowerQuery, results)
       IN IF includes(toLowerCase(key), lowerQuery)
          THEN Append(below, KeyMatch(newPath))
          ELSE below

\* searchEntry with the key match recorded at the parent's path.
searchEntry_ParentPath(key, value, currentPath, depth, lowerQuery, results) ==
  IF ResultCapReached(results) THEN results
  ELSE LET newPath == Append(currentPath, key)
           withKey == IF includes(toLowerCase(key), lowerQuery)
                      THEN Append(results, KeyMatch(currentPath))
                      ELSE results
       IN search(value, newPath, depth + 1, lowerQuery, withKey)

\* The forEach callback of the object branch, for one [key, value] entry.
searchEntry(key, value, currentPath, depth, lowerQuery, results) ==
  IF ResultCapReached(results) THEN results
  ELSE LET newPath == Append(currentPath, key)
           withKey == IF includes(toLowerCase(key), lowerQuery)
                      THEN Append(results, KeyMatch(newPath))
                      ELSE results
       IN search(value, newPath, depth + 1, lowerQuery, withKey)

\* forEach over items[lo..hi] in increasing index order.  The range is split
\* in halves only to keep the evaluation shallow; the order is unchanged, and
\* once the cap is reached every remaining callback returns at once.
searchItems(items, lo, hi, currentPath, depth, lowerQuery, results) ==
  IF lo > hi THEN results
  ELSE IF lo = hi
    THEN searchItem(items[lo], lo - 1, currentPath, depth, lowerQuery, results)
  ELSE LET mid == (lo + hi) \div 2
           left == searchItems(items, lo, mid, currentPath, depth, lowerQuery,
                               results)
       IN IF ResultCapReached(left) THEN left
          ELSE searchItems(items, mid + 1, hi, currentPath, depth, lowerQuery,
                           left)

\* The entries visited from the last to the first.
searchEntries_LastFirst(entries, lo, hi, currentPath, depth, lowerQuery, results) ==
  IF lo > hi THEN results
  ELSE IF lo = hi
    THEN searchEntry(entries[lo][1], entries[lo][2], currentPath, depth,
                     lowerQuery, results)
  ELSE LET mid == (lo + hi) \div 2
           right == searchEntries(entries, mid + 1, hi, currentPath, depth,
                                  lowerQuery, results)
       IN IF ResultCapReached(right) THEN right
          ELSE searchEntries(entries, lo, mid, currentPath, depth,
                             lowerQuery, right)

\* forEach over entries[lo..hi] in the document's key order.
searchEntries(entries, lo, hi, currentPath, depth, lowerQuery, results) ==
  IF lo > hi THEN results
  ELSE IF lo = hi
    THEN searchEntry(entries[lo][1], entries[lo][2], currentPath, depth,
                     lowerQuery, results)
  ELSE LET mid == (lo + hi) \div 2
           left == searchEntries(entries, lo, mid, currentPath, depth,
                                 lowerQuery, results)
       IN IF ResultCapReached(left) THEN left
          ELSE searchEntries(entries, mid + 1, hi, currentPath, depth,
                             lowerQuery, left)

\* search with forEach run over the whole container, not over slice(0, 1000).
search_Unsliced(obj, currentPath, depth, lowerQuery, results) ==
  IF ResultCapReached(results) \/ depth > MAX_DEPTH THEN results
  ELSE IF obj.t = "null" THEN results
  ELSE IF obj.t = "arr"
    THEN searchItems(obj.v, 1, Len(obj.v), currentPath, depth, lowerQuery,
                     results)
  ELSE IF obj.t = "obj"
    THEN searchEntries(obj.v, 1, Len(obj.v), currentPath, depth, lowerQuery,
                       results)
  ELSE IF includes(toLowerCase(StringOf(obj)), lowerQuery)
    THEN Append(results, ValueMatch(currentPath))
  ELSE results

\* The inner function search(obj, currentPath, depth); `results` is the
\* array it pushes to, threaded through the calls.
search(obj, currentPath, depth, lowerQuery, results) ==
  IF ResultCapReached(results) \/ depth > MAX_DEPTH THEN results
  ELSE IF obj.t = "null" THEN results
  ELSE IF obj.t = "arr"
    THEN searchItems(obj.v, 1, Min(Len(obj.v), MAX_BREADTH), currentPath,
                     depth, lowerQuery, results)
  ELSE IF obj.t = "obj"
    THEN searchEntries(obj.v, 1, Min(Len(obj.v), MAX_BREADTH), currentPath,
                       depth, lowerQuery, results)
  ELSE IF includes(toLowerCase(StringOf(obj)), lowerQuery)
    THEN Append(results, ValueMatch(currentPath))
  ELSE results

\* The same traversal with a record of its calls.  `run` holds the results
\* array and, for every call of search that gets past its first line, the
\* path of the call and results.length at that moment.
RECURSIVE inspect(_, _, _, _, _)
RECURSIVE inspectItems(_, _, _, _, _, _, _)
RECURSIVE inspectEntries(_, _, _, _, _, _, _)

NoRun == [results |-> <<>>, inspected |-> <<>>]

\* Children of a container that slice(0, 1000) passes on, when it passes all.
SearchedBreadth_Unsliced(obj) == Len(obj.v)

\* Children of a container that slice(0, 1000) passes on.
SearchedBreadth(obj) == Min(Len(obj.v), MAX_BREADTH)

inspectItem(item, index, currentPath, depth, lowerQuery, run) ==
  IF ResultCapReached(run.results) THEN run
  ELSE inspect(item, Append(currentPath, IndexName(index)), depth + 1,
               lowerQuery, run)

inspectEntry(key, value, currentPath, depth, lowerQuery, run) ==
  IF ResultCapReached(run.results) THEN run
  ELSE LET newPath == Append(currentPath, key)
           withKey == IF includes(toLowerCase(key), lowerQuery)
                      THEN [run EXCEPT !.results = Append(@, KeyMatch(newPath))]
                      ELSE run
       IN inspect(value, newPath, depth + 1, lowerQuery, withKey)

inspectItems(items, lo, hi, currentPath, depth, lowerQuery, run) ==
  IF lo > hi THEN run
  ELSE IF lo = hi
    THEN inspectItem(items[lo], lo - 1, currentPath, depth, lowerQuery, run)
  ELSE LET mid == (lo + hi) \div 2
           left == inspectItems(items, lo, mid, currentPath, depth, lowerQuery,
                                run)
       IN IF ResultCapReached(left.results) THEN left
          ELSE inspectItems(items, mid + 1, hi, currentPath, depth, lowerQuery,
                            left)

inspectEntries(entries, lo, hi, currentPath, depth, lowerQuery, run) ==
  IF lo > hi THEN run
  ELSE IF lo = hi
    THEN inspectEntry(entries[lo][1], entries[lo][2], currentPath, depth,
                      lowerQuery, run)
  ELSE LET mid == (lo + hi) \div 2
           left == inspectEntries(entries, lo, mid, currentPath, depth,
                                  lowerQuery, run)
       IN IF ResultCapReached(left.results) THEN left
          ELSE inspectEntries(entries, mid + 1, hi, currentPath, depth,
                              lowerQuery, left)

inspect(obj, currentPath, depth, lowerQuery, run) ==
  IF ResultCapReached(run.results) \/ depth > MAX_DEPTH THEN run
  ELSE LET seen == [run EXCEPT !.inspected =
                      Append(@, [path |-> currentPath,
                                 found |-> Len(run.results)])]
       IN IF obj.t = "null" THEN seen
          ELSE IF obj.t = "arr"
            THEN inspectItems(obj.v, 1, SearchedBreadth(obj), currentPath,
                              depth, lowerQuery, seen)
          ELSE IF obj.t = "obj"
            THEN inspectEntries(obj.v, 1, SearchedBreadth(obj), currentPath,
                                depth, lowerQuery, seen)
          ELSE IF includes(toLowerCase(StringOf(obj)), lowerQuery)
            THEN [seen EXCEPT !.results = Append(@, ValueMatch(currentPath))]
          ELSE seen

\* The run of searchInData(data, query).
inspectInData(data, query) ==
  IF trim(query) = <<>> \/ ~Truthy(data) THEN NoRun
  ELSE inspect(data, <<>>, 0, toLowerCase(query), NoRun)

\* results.slice(0, MAX_RESULTS)
SliceResults(results) == SubSeq(results, 1, Min(Len(results), MAX_RESULTS))

\* searchInData without the guard of its first line.
searchInData_NoGuard(data, query) == SliceResults(search(data, <<>>, 0, toLowerCase(query), <<>>))

searchInData(data, query) ==
  IF trim(query) = <<>> \/ ~Truthy(data) THEN <<>>
  ELSE SliceResults(search(data, <<>>, 0, toLowerCase(query), <<>>))


\* ------------------------------------------------------------------- files

\* String.prototype.endsWith
endsWith(s, p) ==
  Len(p) <= Len(s) /\ SubSeq(s, Len(s) - Len(p) + 1, Len(s)) = p

ExtJson == <<".", "j", "s", "o", "n">>
ExtJsonl == <<".", "j", "s", "o", "n", "l">>

\* A line of a file's text: a complete JSON text (with the value it parses
\* to), a text JSON.parse rejects, or a blank line.
JsonLine(value) == [k |-> "json", v |-> value]
BadLine == [k |-> "bad", v |-> Null]
BlankLine == [k |-> "blank", v |-> Null]

\* lines.filter(line => line.trim() !== '')
NonBlank(lines) == SelectSeq(lines, LAMBDA l : l.k # "blank")

\* JSON.parse(content) of a whole file: the text must hold exactly one JSON
\* text (white space around it is allowed).
ParseWhole(lines) ==
  LET nb == NonBlank(lines)
  IN IF Len(nb) = 1 /\ nb[1].k = "json"
     THEN [ok |-> TRUE, value |-> nb[1].v]
     ELSE [ok |-> FALSE, value |-> Null]

\* parsedLines when a line that fails to parse is pushed as null.
ParsedLines_KeepsFailures(lines) == [i \in 1..Len(NonBlank(lines)) |-> NonBlank(lines)[i].v]

\* parsedLines of the JSONL branch: the values of the lines that parse.
ParsedLines(lines) ==
  LET good == SelectSeq(NonBlank(lines), LAMBDA l : l.k = "json")
  IN [i \in 1..Len(good) |-> good[i].v]

\* errors.length of the JSONL branch.
ErrorLines(lines) == Len(SelectSeq(NonBlank(lines), LAMBDA l : l.k = "bad"))

\* --------------------------------------------------- documents and files

Sa == <<"a">>
Sb == <<"b">>
Sc == <<"c">>
Sk == <<"k">>
Sx == <<"x">>
Sy == <<"y">>
Sroot == <<"r", "o", "o", "t">>
Sjsonl_records ==
  <<"j", "s", "o", "n", "l", "_", "r", "e", "c", "o", "r", "d", "s">>

\* {"root": {"a": {"c": 1}}, "a": {"k": [5, 6]}}
DocRootKey ==
  JObj(<< <<Sroot, JObj(<< <<Sa, JObj(<< <<Sc, JNum(1)>> >>)>> >>)>>,
          <<Sa, JObj(<< <<Sk, JArr(<<JNum(5), JNum(6)>>)>> >>)>> >>)

\* {"a": {"k": [5, 6]}}
DocPlain == JObj(<< <<Sa, JObj(<< <<Sk, JArr(<<JNum(5), JNum(6)>>)>> >>)>> >>)

\* [1, 2, ..., 250]: two full pages and a last page of 50
DocBig == JArr([i \in 1..BigLength |-> JNum(i)])

\* {"a": {"b": 1, "c": [1, 2, 3]}}
DocNested ==
  JObj(<< <<Sa, JObj(<< <<Sb, JNum(1)>>,
                        <<Sc, JArr(<<JNum(1), JNum(2), JNum(3)>>)>> >>)>> >>)

\* {"x": 42, "y": "value42"}
DocScenario ==
  JObj(<< <<Sx, JNum(42)>>,
          <<Sy, JStr(<<"v", "a", "l", "u", "e", "4", "2">>)>> >>)

SmallSize == 2048
LargeSize == LARGE_FILE_THRESHOLD + 1

\* The files the user can select or drop: name, MIME type, size in bytes and
\* the lines of the text.
FileTable ==
  << [name |-> <<"a">> \o ExtJson, type |-> "application/json",
      size |-> LargeSize, lines |-> <<JsonLine(DocRootKey)>>],
     [name |-> <<"b">> \o ExtJson, type |-> "application/json",
      size |-> LargeSize, lines |-> <<JsonLine(DocPlain)>>],
     [name |-> <<"B">> \o ExtJson, type |-> "application/json",
      size |-> LargeSize, lines |-> <<JsonLine(DocBig), BlankLine>>],
     [name |-> <<"s">> \o ExtJson, type |-> "application/json",
      size |-> SmallSize, lines |-> <<JsonLine(DocNested)>>],
     [name |-> <<"r">> \o ExtJsonl, type |-> "",
      size |-> SmallSize,
      lines |-> <<JsonLine(DocScenario), BadLine, JsonLine(JNum(7))>>],
     [name |-> <<"x", ".", "t", "x", "t">>, type |-> "text/plain",
      size |-> SmallSize, lines |-> <<BadLine>>],
     [name |-> <<"e">> \o ExtJsonl, type |-> "",
      size |-> SmallSize, lines |-> <<BadLine, BlankLine, BadLine>>] >>

FileIds == 1..Len(FileTable)

\* The texts typed into the search box.
Queries == {<<>>, Sc, Sk}

\* ------------------------------------------------------------------- state

VARIABLES
  jsonData,       \* useState(null): the parsed document
  fileName,       \* useState(''): name of the file last given to processFile
  error,          \* useState(''): [kind, count], kind "" when no error is shown
  isLoading,      \* useState(false)
  fileSize,       \* useState(0)
  isJsonlFile,    \* useState(false)
  searchQuery,    \* useState('')
  searchResults,  \* useState([])
  searchTimer,    \* the pending timeouts of the search effect, each with
                  \* the jsonData and searchQuery its callback closes over
                  \* (and, as history, whether a timeout was pending when
                  \* the effect set it)
  loads,          \* the processFile calls in flight, oldest first
  nLoads,         \* how many processFile calls were made
  nodes,          \* the mounted TreeNodes: React key path -> hook state
  clicked,        \* history: a row was clicked since the tree mounted
  hidden          \* history, kept only in behaviours that start with
                  \* hidden.on: the container nodes that the last commit
                  \* unmounted in a state other than their default

vars == <<jsonData, fileName, error, isLoading, fileSize, isJsonlFile,
          searchQuery, searchResults, searchTimer, loads, nLoads, nodes,
          clicked, hidden>>

appVars == <<jsonData, fileName, error, isLoading, fileSize, isJsonlFile>>

NoError == [kind |-> "", count |-> 0]
NoNodes == [p \in {} |-> 0]
NoTimer == {}

\* const isLargeFile = fileSize > 5 * 1024 * 1024
isLargeFileOf(size) == size > LARGE_FILE_THRESHOLD
isLargeFile == isLargeFileOf(fileSize)

\* name={isJsonlFile ? "jsonl_records" : "root"}
RootName(jsonl) == IF jsonl THEN Sjsonl_records ELSE Sroot

\* {jsonData && !isLoading && ( ... <TreeNode ... /> )}
TreeShown(data, loading) == Truthy(data) /\ ~loading

\* ---------------------------------------------------------------- TreeNode

\* The rule of small files applied to every file.
shouldAutoExpand_IgnoresSize(large, level) == level < 2

\* const shouldAutoExpand = isLargeFile ? level < 1 : level < 2
shouldAutoExpand(large, level) == IF large THEN level < 1 ELSE level < 2

\* searchResults.some(result => result.pathString === pathString ||
\*                              result.pathString.startsWith(pathString + '.'))
isSearchMatch(results, pathString) ==
  \E i \in 1..Len(results) :
    \/ results[i].pathString = pathString
    \/ startsWith(results[i].pathString, pathString \o <<".">>)

\* useState(isLargeFile && isArray ? 100 : (isArray ? data.length : 0))
InitialVisibleCount(large, data) ==
  IF large /\ IsArrayValue(data) THEN PAGE_SIZE
  ELSE IF IsArrayValue(data) THEN Len(data.v) ELSE 0

\* The first page again: the previous count is forgotten.
LoadMoreCount_FirstPage(prev, data) == Min(PAGE_SIZE, Len(data.v))

\* The number of elements not shown yet, taken for the new count.
LoadMoreCount_Remaining(prev, data) == Len(data.v) - prev

\* One more page, whatever the array's length.
LoadMoreCount_NoSaturation(prev, data) == prev + PAGE_SIZE

\* setVisibleCount((prev) => Math.min(prev + 100, data.length))
LoadMoreCount(prev, data) == Min(prev + PAGE_SIZE, Len(data.v))

\* {data.length - visibleCount} remaining
Remaining(data, visibleCount) == Len(data.v) - visibleCount

\* The window of arrays applied to objects as well.
ChildEntryCount_WindowsObjects(large, data, expanded, visibleCount) ==
  IF ~expanded \/ IsPrimitiveValue(data) THEN 0
  ELSE Min(Len(data.v), IF large THEN visibleCount ELSE Len(data.v))

\* The length of childEntries: the children a node mounts.
ChildEntryCount(large, data, expanded, visibleCount) ==
  IF ~expanded \/ IsPrimitiveValue(data) THEN 0
  ELSE IF IsArrayValue(data)
    THEN Min(Len(data.v), IF large THEN visibleCount ELSE Len(data.v))
  ELSE Len(data.v)

\* The React key, the name and the data of the i-th child entry.
ChildKey(data, i) ==
  IF IsArrayValue(data) THEN NatToString(i - 1) ELSE data.v[i][1]
ChildName(data, i) ==
  IF IsArrayValue(data) THEN IndexName(i - 1) ELSE data.v[i][1]
ChildData(data, i) ==
  IF IsArrayValue(data) THEN data.v[i] ELSE data.v[i][2]

\* toggleExpanded: setIsExpanded(!isExpanded)
ToggledValue(isExpanded) == ~isExpanded

\* The effect [searchQuery, isSearchMatch] runs when the node mounts and
\* when a dependency changed.
RunExpandEffect(kept, queryChanged, match, oldMatch) ==
  ~kept \/ queryChanged \/ match # oldMatch

\* if (searchQuery && isSearchMatch) setIsExpanded(true)
ForcesExpanded(query, match) == query # <<>> /\ match

\* The effect [data, isLargeFile, isArray, isExpanded] runs when the node
\* mounts and when a dependency changed (isLargeFile cannot change while the
\* tree is mounted, and isArray changes only with data).
RunResetEffect(kept, dataChanged, expanded, oldExpanded) ==
  ~kept \/ dataChanged \/ expanded # oldExpanded

\* if (isLargeFile && isArray) setVisibleCount(100)
ResetsVisibleCount(large, data) == large /\ IsArrayValue(data)

\* What one commit does to one TreeNode.  old is the tree before the event,
\* ev the event: the new query and results, whether the query or the
\* document object changed, and the node whose row or whose load-more
\* button was clicked (toggle, more: the set holding its key path, or {}).
\* A node that is not in old mounts: its hooks take their initial values
\* and both effects run.
NodeAfter(data, rp, currentPath, level, old, ev) ==
  LET kept == rp \in DOMAIN old
      match == isSearchMatch(ev.results, join(currentPath))
      clickedValue ==
        IF kept
        THEN (IF rp \in ev.toggle THEN ToggledValue(old[rp].isExpanded)
              ELSE old[rp].isExpanded)
        ELSE shouldAutoExpand(ev.large, level)
      expanded ==
        IF /\ RunExpandEffect(kept, ev.queryChanged, match,
                              kept /\ old[rp].isSearchMatch)
           /\ ForcesExpanded(ev.query, match)
        THEN TRUE
        ELSE clickedValue
      count ==
        IF ~kept THEN InitialVisibleCount(ev.large, data)
        ELSE IF rp \in ev.more THEN LoadMoreCount(old[rp].visibleCount, data)
        ELSE old[rp].visibleCount
      visible ==
        IF /\ RunResetEffect(kept, ev.dataChanged, expanded,
                             kept /\ old[rp].isExpanded)
           /\ ResetsVisibleCount(ev.large, data)
        THEN PAGE_SIZE
        ELSE count
  IN [isExpanded |-> expanded, visibleCount |-> visible,
      isSearchMatch |-> match]

RECURSIVE Render(_, _, _, _, _, _)
RECURSIVE RenderChildren(_, _, _, _, _, _, _, _)

\* The subtree of TreeNodes rendered for data after the commit.
Render(data, rp, currentPath, level, old, ev) ==
  LET node == NodeAfter(data, rp, currentPath, level, old, ev)
      n == ChildEntryCount(ev.large, data, node.isExpanded, node.visibleCount)
  IN (rp :> node) @@ RenderChildren(data, 1, n, rp, currentPath, level, old, ev)

\* childEntries.map(... <TreeNode key={key} ... path={currentPath} />),
\* entries lo..hi.
RenderChildren(data, lo, hi, rp, currentPath, level, old, ev) ==
  IF lo > hi THEN NoNodes
  ELSE IF lo = hi
    THEN Render(ChildData(data, lo), Append(rp, ChildKey(data, lo)),
                Append(currentPath, ChildName(data, lo)), level + 1, old, ev)
  ELSE LET mid == (lo + hi) \div 2
       IN RenderChildren(data, lo, mid, rp, currentPath, level, old, ev)
          @@ RenderChildren(data, mid + 1, hi, rp, currentPath, level, old, ev)

\* pathString of the TreeNode mounted with React key path rp:
\* [...path, name].join('.'), the root's name being the first segment.
NodePathString(jsonl, doc, names) == join(<<RootName(jsonl)>> \o names)

\* No node was clicked.
NoPath == {}

\* The tree after a commit of App with the given state.
TreeAfter(data, loading, jsonl, size, query, results, old, queryChanged, dataChanged, toggle, more) ==
  IF ~TreeShown(data, loading) THEN NoNodes
  ELSE Render(data, <<>>, <<RootName(jsonl)>>, 0, old,
              [large |-> isLargeFileOf(size), query |-> query,
               results |-> results, queryChanged |-> queryChanged,
               dataChanged |-> dataChanged, toggle |-> toggle, more |-> more])

DigitValue(c) ==
  CASE c = "0" -> 0 [] c = "1" -> 1 [] c = "2" -> 2 [] c = "3" -> 3
    [] c = "4" -> 4 [] c = "5" -> 5 [] c = "6" -> 6 [] c = "7" -> 7
    [] c = "8" -> 8 [] OTHER -> 9

RECURSIVE StringToNat(_)
StringToNat(s) ==
  IF s = <<>> THEN 0
  ELSE 10 * StringToNat(SubSeq(s, 1, Len(s) - 1)) + DigitValue(s[Len(s)])

\* The position among data's entries of the child with React key `key`.
ChildIndex(data, key) ==
  IF IsArrayValue(data) THEN StringToNat(key) + 1
  ELSE CHOOSE i \in 1..ChildCount(data) : ChildKey(data, i) = key

\* The data prop of the mounted node with React key path rp, below data.
RECURSIVE DataAt(_, _)
DataAt(data, rp) ==
  IF rp = <<>> THEN data
  ELSE DataAt(ChildData(data, ChildIndex(data, Head(rp))), Tail(rp))

\* The names of the nodes on the way from data down to key path rp.
RECURSIVE NamesAt(_, _)
NamesAt(data, rp) ==
  IF rp = <<>> THEN <<>>
  ELSE LET i == ChildIndex(data, Head(rp))
       IN <<ChildName(data, i)>> \o NamesAt(ChildData(data, i), Tail(rp))

\* The history variable hidden with no path in it.
NoneHidden == [on |-> hidden.on, paths |-> {}]

\* The history variable hidden after a commit that leaves the same document
\* and the tree `tree`.
HiddenAfter(tree) ==
  IF ~hidden.on \/ tree = NoNodes THEN NoneHidden
  ELSE [on |-> TRUE,
        paths |->
          {rp \in DOMAIN nodes \ DOMAIN tree :
             /\ ~IsPrimitiveValue(DataAt(jsonData, rp))
             /\ nodes[rp].isExpanded
                  # shouldAutoExpand(isLargeFile, Len(rp))}]

\* --------------------------------------------------------------------- App

Init ==
  /\ jsonData = Null
  /\ fileName = <<>>
  /\ error = NoError
  /\ isLoading = FALSE
  /\ fileSize = 0
  /\ isJsonlFile = FALSE
  /\ searchQuery = <<>>
  /\ searchResults = <<>>
  \* the search effect runs when App mounts
  /\ searchTimer = {[data |-> Null, query |-> <<>>, superseding |-> FALSE]}
  /\ loads = <<>>
  /\ nLoads = 0
  /\ nodes = NoNodes
  /\ clicked = FALSE
  /\ hidden = [on |-> FALSE, paths |-> {}]

\* Whether setJsonData(value) changes the state (Object.is): a parsed array
\* or object is a new object, a primitive is compared by value.
StateChanges(old, value) ==
  IF IsPrimitiveValue(value) THEN old.t # value.t \/ old.v # value.v ELSE TRUE

\* The effect's cleanup left out: the timeout set before stays pending.
ClearedTimers_NoCleanup(timers) == timers

\* return () => clearTimeout(timeoutId): the timeout the effect set is
\* cleared before the effect runs again.
ClearedTimers(timers) == NoTimer

\* The search effect [jsonData, searchQuery]: when a dependency changed, the
\* cleanup clears the pending timeout and a new one is set.
TimerAfter(data, dataChanged, query) ==
  IF dataChanged \/ query # searchQuery
  THEN ClearedTimers(searchTimer)
       \cup {[data |-> data, query |-> query,
               superseding |-> searchTimer # NoTimer]}
  ELSE searchTimer

\* processFile(file), for the file FileTable[f].
processFile(f) ==
  LET file == FileTable[f] IN
  /\ nLoads < MaxLoads
  /\ fileName' = file.name
  /\ fileSize' = file.size
  /\ error' = NoError
  /\ isLoading' = TRUE
  /\ isJsonlFile' = endsWith(toLowerCase(file.name), ExtJsonl)
  /\ loads' = Append(loads, [file |-> f, stage |-> "timer"])
  /\ nLoads' = nLoads + 1
  /\ nodes' = TreeAfter(jsonData, TRUE, isJsonlFile', fileSize', searchQuery,
                        searchResults, nodes, FALSE, FALSE, NoPath, NoPath)
  /\ clicked' = (clicked /\ nodes' # NoNodes)
  /\ hidden' = HiddenAfter(nodes')
  /\ UNCHANGED <<jsonData, searchQuery, searchResults, searchTimer>>

\* The file input's onChange; its button is disabled while isLoading.
handleFileLoad(f) ==
  /\ ~isLoading
  /\ processFile(f)

\* onDrop with one file.
handleDrop(f) ==
  LET file == FileTable[f] IN
  IF \/ file.type = "application/json"
     \/ endsWith(toLowerCase(file.name), ExtJson)
     \/ endsWith(toLowerCase(file.name), ExtJsonl)
  THEN processFile(f)
  ELSE /\ error' = [kind |-> "not a JSON or JSONL file", count |-> 0]
       /\ jsonData' = Null
       /\ searchTimer' = TimerAfter(Null, StateChanges(jsonData, Null),
                                    searchQuery)
       /\ nodes' = NoNodes
       /\ clicked' = FALSE
       /\ hidden' = NoneHidden
       /\ UNCHANGED <<fileName, isLoading, fileSize, isJsonlFile, searchQuery,
                      searchResults, loads, nLoads>>

RemoveAt(seq, i) == SubSeq(seq, 1, i - 1) \o SubSeq(seq, i + 1, Len(seq))

\* The setTimeout(..., 100) callback of processFile: reader.readAsText(file).
\* Equal delays fire in the order they were set.
LoadTimeout(i) ==
  /\ loads[i].stage = "timer"
  /\ \A j \in 1..(i - 1) : loads[j].stage # "timer"
  /\ loads' = [loads EXCEPT ![i].stage = "reading"]
  /\ UNCHANGED <<appVars, searchQuery, searchResults, searchTimer, nLoads,
                 nodes, clicked, hidden>>

\* What reader.onload leaves in jsonData and error for a file.
LoadOutcome(file) ==
  IF endsWith(toLowerCase(file.name), ExtJsonl)
  THEN LET parsedLines == ParsedLines(file.lines)
           errors == ErrorLines(file.lines)
       IN IF errors > 0 /\ Len(parsedLines) = 0
          THEN [data |-> Null, set |-> TRUE,
                error |-> [kind |-> "no valid JSON objects", count |-> errors]]
          ELSE IF errors > 0
          THEN [data |-> JArr(parsedLines), set |-> TRUE,
                error |-> [kind |-> "invalid lines skipped", count |-> errors]]
          ELSE [data |-> JArr(parsedLines), set |-> FALSE, error |-> NoError]
  ELSE LET parsed == ParseWhole(file.lines)
       IN IF parsed.ok
          THEN [data |-> parsed.value, set |-> FALSE, error |-> NoError]
          ELSE [data |-> Null, set |-> TRUE,
                error |-> [kind |-> "invalid JSON", count |-> 0]]

\* reader.onload of the i-th load in flight.
ReaderOnLoad(i) ==
  /\ loads[i].stage = "reading"
  /\ LET out == LoadOutcome(FileTable[loads[i].file])
         changed == StateChanges(jsonData, out.data)
     IN /\ jsonData' = out.data
        /\ error' = IF out.set THEN out.error ELSE error
        /\ isLoading' = FALSE
        /\ searchTimer' = TimerAfter(out.data, changed, searchQuery)
        /\ nodes' = TreeAfter(out.data, FALSE, isJsonlFile, fileSize,
                              searchQuery, searchResults, nodes, FALSE,
                              changed, NoPath, NoPath)
        /\ clicked' = (clicked /\ nodes' # NoNodes)
        /\ hidden' = NoneHidden
  /\ loads' = RemoveAt(loads, i)
  /\ UNCHANGED <<fileName, fileSize, isJsonlFile, searchQuery, searchResults,
                 nLoads>>

\* reader.onerror of the i-th load in flight.
ReaderOnError(i) ==
  /\ loads[i].stage = "reading"
  /\ error' = [kind |-> "failed to read file", count |-> 0]
  /\ isLoading' = FALSE
  /\ loads' = RemoveAt(loads, i)
  /\ nodes' = TreeAfter(jsonData, FALSE, isJsonlFile, fileSize, searchQuery,
                        searchResults, nodes, FALSE, FALSE, NoPath, NoPath)
  /\ clicked' = (clicked /\ nodes' # NoNodes)
  /\ hidden' = HiddenAfter(nodes')
  /\ UNCHANGED <<jsonData, fileName, fileSize, isJsonlFile, searchQuery,
                 searchResults, searchTimer, nLoads>>

\* The search box is rendered when jsonData && !isLoading.
SearchBoxShown == TreeShown(jsonData, isLoading)

\* setSearchQuery(query), from the input's onChange or the clear button.
setSearchQuery(query) ==
  /\ searchQuery' = query
  /\ searchTimer' = TimerAfter(jsonData, FALSE, query)
  /\ nodes' = TreeAfter(jsonData, isLoading, isJsonlFile, fileSize, query,
                        searchResults, nodes, query # searchQuery, FALSE,
                        NoPath, NoPath)
  /\ clicked' = (clicked /\ nodes' # NoNodes)
  /\ hidden' = HiddenAfter(nodes')
  /\ UNCHANGED <<appVars, searchResults, loads, nLoads>>

\* onChange={(e) => setSearchQuery(e.target.value)}
TypeQuery(query) ==
  /\ SearchBoxShown
  /\ query # searchQuery
  /\ setSearchQuery(query)

\* {searchQuery && <button onClick={() => setSearchQuery('')}>}
ClearQuery ==
  /\ SearchBoxShown
  /\ searchQuery # <<>>
  /\ setSearchQuery(<<>>)

\* The callback when it finds nothing, whatever the query.
TimeoutResults_Nothing(data, query) == <<>>

\* What the timeout's callback passes to setSearchResults.
TimeoutResults(data, query) ==
  IF Truthy(data) /\ trim(query) # <<>> THEN searchInData(data, query)
  ELSE <<>>

\* The callback when it pushes what it finds onto the results on display.
SearchTimeout_Accumulates ==
  \E timer \in searchTimer :
  /\ searchResults' = SliceResults(searchResults \o TimeoutResults(timer.data, timer.query))
  /\ searchTimer' = searchTimer \ {timer}
  /\ nodes' = TreeAfter(jsonData, isLoading, isJsonlFile, fileSize,
                        searchQuery, searchResults', nodes, FALSE, FALSE,
                        NoPath, NoPath)
  /\ clicked' = (clicked /\ nodes' # NoNodes)
  /\ hidden' = HiddenAfter(nodes')
  /\ UNCHANGED <<appVars, searchQuery, loads, nLoads>>

\* The callback of the search effect's setTimeout(..., 300).
SearchTimeout ==
  \E timer \in searchTimer :
  /\ searchResults' = TimeoutResults(timer.data, timer.query)
  /\ searchTimer' = searchTimer \ {timer}
  /\ nodes' = TreeAfter(jsonData, isLoading, isJsonlFile, fileSize,
                        searchQuery, searchResults', nodes, FALSE, FALSE,
                        NoPath, NoPath)
  /\ clicked' = (clicked /\ nodes' # NoNodes)
  /\ hidden' = HiddenAfter(nodes')
  /\ UNCHANGED <<appVars, searchQuery, loads, nLoads>>

\* onClick={!isPrimitive ? toggleExpanded : undefined} on the row of the
\* node with key path rp.
toggleExpanded(rp) ==
  /\ rp \in DOMAIN nodes
  /\ ~IsPrimitiveValue(DataAt(jsonData, rp))
  /\ nodes' = TreeAfter(jsonData, isLoading, isJsonlFile, fileSize,
                        searchQuery, searchResults, nodes, FALSE, FALSE,
                        {rp}, NoPath)
  /\ clicked' = (nodes' # NoNodes)
  /\ hidden' = HiddenAfter(nodes')
  /\ UNCHANGED <<appVars, searchQuery, searchResults, searchTimer, loads,
                 nLoads>>

\* {isArray && isLargeFile && data.length > visibleCount && ...}, inside
\* {isExpanded && ...}
canLoadMore(rp) ==
  /\ rp \in DOMAIN nodes
  /\ nodes[rp].isExpanded
  /\ IsArrayValue(DataAt(jsonData, rp))
  /\ isLargeFile
  /\ Len(DataAt(jsonData, rp).v) > nodes[rp].visibleCount

\* The Load more button of the node with key path rp.
LoadMore(rp) ==
  /\ canLoadMore(rp)
  /\ nodes' = TreeAfter(jsonData, isLoading, isJsonlFile, fileSize,
                        searchQuery, searchResults, nodes, FALSE, FALSE,
                        NoPath, {rp})
  /\ clicked' = (clicked /\ nodes' # NoNodes)
  /\ hidden' = HiddenAfter(nodes')
  /\ UNCHANGED <<appVars, searchQuery, searchResults, searchTimer, loads,
                 nLoads>>

Next ==
  \/ \E f \in FileIds : handleFileLoad(f)
  \/ \E f \in FileIds : handleDrop(f)
  \/ \E i \in 1..Len(loads) : LoadTimeout(i)
  \/ \E i \in 1..Len(loads) : ReaderOnLoad(i)
  \/ \E i \in 1..Len(loads) : ReaderOnError(i)
  \/ \E q \in Queries : TypeQuery(q)
  \/ ClearQuery
  \/ SearchTimeout
  \/ \E rp \in DOMAIN nodes : toggleExpanded(rp)
  \/ \E rp \in DOMAIN nodes : LoadMore(rp)

Spec == Init /\ [][Next]_vars

\* ------------------------------------------------- search, run on its own

\* {"K": true, "b": [null, "Kc", {"ck": 0}], "c": "a b"}
DocMixed ==
  JObj(<< << <<"K">>, JBool(TRUE)>>,
          <<Sb, JArr(<<Null, JStr(<<"K", "c">>),
                       JObj(<< << <<"c", "k">>, JNum(0)>> >>)>>)>>,
          <<Sc, JStr(<<"a", " ", "b">>)>> >>)

\* {"k": 5, "k1": "K", ..., "k600": "K"}: 1201 matches of the query "k"
DocCap ==
  JObj(<< <<Sk, JNum(5)>> >>
       \o [i \in 1..600 |-> <<Sk \o NatToString(i), JStr(<<"K">>)>>])

\* [[...[["k"]]...]], the string below n arrays
RECURSIVE Nested(_)
Nested(n) == IF n = 0 THEN JStr(Sk) ELSE JArr(<<Nested(n - 1)>>)

\* {"a": <"k" at depth MAX_DEPTH>, "b": <"k" at depth MAX_DEPTH + 1>,
\*  "k": <"k" at depth MAX_DEPTH + 2>}
DocDeep ==
  JObj(<< <<Sa, Nested(MAX_DEPTH - 1)>>, <<Sb, Nested(MAX_DEPTH)>>,
          <<Sk, Nested(MAX_DEPTH + 1)>> >>)

\* [0, ..., 0, "k", "k"] with the strings at indices 999 and 1000
DocWide ==
  JArr([i \in 1..(MAX_BREADTH + 1) |->
          IF i < MAX_BREADTH THEN JNum(0) ELSE JStr(Sk)])

\* [[...[{"k": 1}]...]], the object below MAX_DEPTH arrays
RECURSIVE NestedEntry(_)
NestedEntry(n) ==
  IF n = 0 THEN JObj(<< <<Sk, JNum(1)>> >>) ELSE JArr(<<NestedEntry(n - 1)>>)

DocDeepKey == NestedEntry(MAX_DEPTH)

\* {"a.b": 2, "a": {"b": 2}}
DocDotted ==
  JObj(<< << <<"a", ".", "b">>, JNum(2)>>,
          <<Sa, JObj(<< <<Sb, JNum(2)>> >>)>> >>)

SearchDocs ==
  <<DocScenario, DocCap, DocNested, DocRootKey, DocMixed, DocDeep, DocWide,
    DocDeepKey, DocDotted, DocBig, Null, JNum(0), JNum(42), JBool(FALSE), JStr(<<>>),
    JStr(<<"K", "c">>)>>

SearchQueries ==
  {<<>>, <<" ">>, Sk, <<"K">>, Sc, <<"4", "2">>, <<"2">>, <<" ", "k">>,
   <<"t", "r", "u", "e">>, <<"l">>, <<"0">>}

\* A document is shown (a small file, nothing in flight) and the debounce
\* timeout of a query is about to fire.
SearchInit ==
  /\ jsonData \in {SearchDocs[i] : i \in 1..Len(SearchDocs)}
  /\ searchQuery \in SearchQueries
  /\ fileName = <<"s">> \o ExtJson
  /\ error = NoError
  /\ isLoading = FALSE
  /\ fileSize = SmallSize
  /\ isJsonlFile = FALSE
  /\ searchResults = <<>>
  /\ searchTimer = {[data |-> jsonData, query |-> searchQuery,
                     superseding |-> FALSE]}
  /\ loads = <<>>
  /\ nLoads = 1
  /\ nodes = TreeAfter(jsonData, FALSE, FALSE, fileSize, searchQuery, <<>>,
                       NoNodes, FALSE, FALSE, NoPath, NoPath)
  /\ clicked = FALSE
  /\ hidden = [on |-> FALSE, paths |-> {}]

SearchNext == SearchTimeout

SpecSearch == SearchInit /\ [][SearchNext]_vars

\* ------------------------------------------- the window, run on its own

\* The length of the top-level array of the windowing scenario.
ScenarioLength == 2000

\* [1, 2, ..., ScenarioLength]
DocLong == JArr([i \in 1..ScenarioLength |-> JNum(i)])

WindowDocs == {DocLong, DocBig, DocPlain}

\* A large file was loaded and its tree has just mounted; the search effect
\* has set its timeout for the new document.
WindowInit ==
  /\ jsonData \in WindowDocs
  /\ fileName = <<"B">> \o ExtJson
  /\ error = NoError
  /\ isLoading = FALSE
  /\ fileSize = LargeSize
  /\ isJsonlFile = FALSE
  /\ searchQuery = <<>>
  /\ searchResults = <<>>
  /\ searchTimer = {[data |-> jsonData, query |-> <<>>,
                     superseding |-> FALSE]}
  /\ loads = <<>>
  /\ nLoads = 1
  /\ nodes = TreeAfter(jsonData, FALSE, FALSE, fileSize, searchQuery, <<>>,
                       NoNodes, FALSE, TRUE, NoPath, NoPath)
  /\ clicked = FALSE
  /\ hidden = [on |-> FALSE, paths |-> {}]

WindowNext ==
  \/ \E q \in Queries : TypeQuery(q)
  \/ ClearQuery
  \/ SearchTimeout
  \/ \E rp \in DOMAIN nodes : toggleExpanded(rp)
  \/ \E rp \in DOMAIN nodes : LoadMore(rp)

SpecWindow == WindowInit /\ [][WindowNext]_vars

\* ---------------------------------------------- the tree, run on its own

\* The files whose tree is looked at: a.json, b.json and B.json (large),
\* s.json (small).
TreeFiles == {1, 2, 3, 4}

\* A file was loaded and its tree has just mounted; the search effect has
\* set its timeout for the new document.
TreeInit ==
  \E f \in TreeFiles :
    /\ jsonData = LoadOutcome(FileTable[f]).data
    /\ fileName = FileTable[f].name
    /\ error = NoError
    /\ isLoading = FALSE
    /\ fileSize = FileTable[f].size
    /\ isJsonlFile = FALSE
    /\ searchQuery = <<>>
    /\ searchResults = <<>>
    /\ searchTimer = {[data |-> jsonData, query |-> <<>>,
                       superseding |-> FALSE]}
    /\ loads = <<>>
    /\ nLoads = 1
    /\ nodes = TreeAfter(jsonData, FALSE, FALSE, fileSize, searchQuery, <<>>,
                         NoNodes, FALSE, TRUE, NoPath, NoPath)
    /\ clicked = FALSE
    /\ hidden = [on |-> TRUE, paths |-> {}]

TreeNext ==
  \/ \E q \in Queries : TypeQuery(q)
  \/ ClearQuery
  \/ SearchTimeout
  \/ \E rp \in DOMAIN nodes : toggleExpanded(rp)
  \/ \E rp \in DOMAIN nodes : LoadMore(rp)

SpecTree == TreeInit /\ [][TreeNext]_vars

\* The browser runs the callback of a timeout that stays pending.  This is
\* WF_vars(SearchTimeout) written out: SearchTimeout is enabled exactly
\* when a timeout is pending, and a step of it leaves none pending, so the
\* fairness condition says that again and again no timeout is pending.
SpecTreeLive == TreeInit /\ [][TreeNext]_vars /\ []<>(searchTimer = NoTimer)

\* ------------------------------------------- vocabulary of the properties

\* text contains query as a case-insensitive substring.
ContainsCI(text, query) ==
  \E i \in 0..(Len(text) - Len(query)) :
    \A j \in 1..Len(query) : LowerChar(text[i + j]) = LowerChar(query[j])

RECURSIVE PreOrder(_, _, _, _)
RECURSIVE PreOrderRange(_, _, _, _, _, _)

\* The matches at and below obj, which lies at `path`, `depth` levels below
\* the root: pre-order, entries in document order, at most MAX_BREADTH
\* entries of a container, nothing deeper than MAX_DEPTH, no result cap.
PreOrder(obj, path, depth, query) ==
  IF depth > MAX_DEPTH \/ obj.t = "null" THEN <<>>
  ELSE IF obj.t \in {"arr", "obj"}
    THEN PreOrderRange(obj, 1, Min(Len(obj.v), MAX_BREADTH), path, depth, query)
  ELSE IF ContainsCI(StringOf(obj), query)
    THEN << <<"value", path>> >>
  ELSE <<>>

PreOrderRange(container, lo, hi, path, depth, query) ==
  IF lo > hi THEN <<>>
  ELSE IF lo = hi
    THEN LET name == ChildName(container, lo)
             own == IF container.t = "obj" /\ ContainsCI(name, query)
                    THEN << <<"key", Append(path, name)>> >>
                    ELSE <<>>
         IN own \o PreOrder(ChildData(container, lo), Append(path, name),
                            depth + 1, query)
  ELSE PreOrderRange(container, lo, (lo + hi) \div 2, path, depth, query)
       \o PreOrderRange(container, (lo + hi) \div 2 + 1, hi, path, depth, query)

\* The match sequence of doc for query with no result cap; a blank query
\* and a falsy document have no matches.
AllMatches(doc, query) ==
  IF trim(query) = <<>> \/ ~Truthy(doc) THEN <<>>
  ELSE PreOrder(doc, <<>>, 0, query)

\* Where following `path` from value arrives: whether every segment named a
\* child, the value reached, and whether the last segment was an object key.
RECURSIVE Resolve(_, _, _)
Resolve(value, path, viaKey) ==
  IF path = <<>> THEN [found |-> TRUE, value |-> value, viaKey |-> viaKey]
  ELSE LET hits == {i \in 1..ChildCount(value) :
                      ChildName(value, i) = Head(path)}
       IN IF hits = {}
          THEN [found |-> FALSE, value |-> Null, viaKey |-> FALSE]
          ELSE LET i == CHOOSE i \in hits : TRUE
               IN Resolve(ChildData(value, i), Tail(path), value.t = "obj")

SoundMatch(doc, query, m) ==
  LET at == Resolve(doc, m.path, FALSE)
  IN /\ at.found
     /\ m.type = "key" =>
          at.viaKey /\ ContainsCI(m.path[Len(m.path)], query)
     /\ m.type = "value" =>
          IsPrimitiveValue(at.value) /\ ContainsCI(StringOf(at.value), query)

\* A search ran: the timeout of SpecSearch's query has fired.
SearchRan == searchTimer = NoTimer

\* C1: searchInData returns at most MAX_RESULTS matches, and they are the
\* first matches, in order, of the depth- and breadth-bounded pre-order
\* traversal without the result cap.
C1_CapAndPrefix ==
  SearchRan =>
    LET all == AllMatches(jsonData, searchQuery)
    IN /\ Len(searchResults) <= MAX_RESULTS
       /\ Len(searchResults) = Min(Len(all), MAX_RESULTS)
       /\ \A i \in 1..Len(searchResults) :
            <<searchResults[i].type, searchResults[i].path>> = all[i]

\* The cap cut the result: the traversal has more than MAX_RESULTS matches.
C1_Witness ==
  /\ SearchRan
  /\ Len(searchResults) = MAX_RESULTS
  /\ Len(AllMatches(jsonData, searchQuery)) > MAX_RESULTS

\* C2: the path of every returned match leads from the document root to an
\* object key (key match) or a primitive value (value match) that contains
\* the query, compared case-insensitively.
C2_MatchesSound ==
  SearchRan =>
    \A i \in 1..Len(searchResults) :
      SoundMatch(jsonData, searchQuery, searchResults[i])

\* A search returned a key match and a value match.
C2_Witness ==
  /\ SearchRan
  /\ \E i \in 1..Len(searchResults) : searchResults[i].type = "key"
  /\ \E i \in 1..Len(searchResults) : searchResults[i].type = "value"

\* p is a prefix of q, segment by segment (or equal to it).
IsPrefix(p, q) == Len(p) <= Len(q) /\ SubSeq(q, 1, Len(p)) = p

\* Some match of results lies at or below the node with key path rp of doc.
OnRouteToMatch(doc, rp, results) ==
  \E i \in 1..Len(results) : IsPrefix(NamesAt(doc, rp), results[i].path)

\* The Expansion Policy default of the node with key path rp.
PolicyDefault(rp) == shouldAutoExpand(isLargeFile, Len(rp))

\* The mounted array nodes.
ArrayNodes == {rp \in DOMAIN nodes : IsArrayValue(DataAt(jsonData, rp))}

\* The number of children the window of a node exposes.
Exposed(doc, large, tree, rp) ==
  ChildEntryCount(large, DataAt(doc, rp), tree[rp].isExpanded,
                  tree[rp].visibleCount)

\* The same document stays loaded over the step: no load starts or ends.
SameDocument == UNCHANGED <<jsonData, loads>>

\* C3: a rendered node's isSearchMatch flag is true if and only if the
\* node's path from the document root equals, or is a segment-wise prefix
\* of, the path of some match in the result set.
C3_FlagIffOnRoute ==
  \A rp \in DOMAIN nodes :
    nodes[rp].isSearchMatch <=> OnRouteToMatch(jsonData, rp, searchResults)

\* C4: when the results of a non-empty query arrive and no row has been
\* clicked, every rendered container node whose path starts the path of a
\* match is flagged and expanded, whatever its policy default.
C4_RouteToMatchExpanded ==
  [][(SearchTimeout /\ searchQuery' # <<>> /\ ~clicked') =>
       \A rp \in DOMAIN nodes' :
         (/\ ~IsPrimitiveValue(DataAt(jsonData', rp))
          /\ OnRouteToMatch(jsonData', rp, searchResults'))
         => nodes'[rp].isSearchMatch /\ nodes'[rp].isExpanded]_vars

\* C5: once the query is cleared, every node that no click has touched is
\* back in its policy default state: no forced expansion is kept.
C5_ClearedQueryRestoresDefault ==
  (searchQuery = <<>> /\ ~clicked) =>
    \A rp \in DOMAIN nodes : nodes[rp].isExpanded = PolicyDefault(rp)

\* C6: an array node never exposes more children than the array has; while
\* the window is short of the length the Load more button is there and
\* would expose more; and every load-more step exposes strictly more
\* children than before, never more than the length.
C6_WindowGrowsToLength ==
  /\ [](\A rp \in ArrayNodes :
          LET data == DataAt(jsonData, rp)
              shown == Exposed(jsonData, isLargeFile, nodes, rp)
          IN /\ shown <= Len(data.v)
             /\ (nodes[rp].isExpanded /\ shown < Len(data.v)) =>
                  /\ canLoadMore(rp)
                  /\ ChildEntryCount(isLargeFile, data, TRUE,
                       LoadMoreCount(nodes[rp].visibleCount, data)) > shown)
  /\ [][\A rp \in DOMAIN nodes :
          LoadMore(rp) =>
            /\ Exposed(jsonData', isLargeFile', nodes', rp)
                 > Exposed(jsonData, isLargeFile, nodes, rp)
            /\ Exposed(jsonData', isLargeFile', nodes', rp)
                 <= Len(DataAt(jsonData, rp).v)]_vars

\* Load more has brought a window of several pages to the array's length.
C6_Witness ==
  \E rp \in ArrayNodes :
    /\ isLargeFile
    /\ nodes[rp].isExpanded
    /\ Len(DataAt(jsonData, rp).v) > 2 * PAGE_SIZE
    /\ Exposed(jsonData, isLargeFile, nodes, rp) = Len(DataAt(jsonData, rp).v)

\* C7: under the large-file flag the visibleCount of every array node is at
\* most the number of elements of the array.
C7_VisibleCountWithinLength ==
  isLargeFile =>
    \A rp \in ArrayNodes :
      nodes[rp].visibleCount <= Len(DataAt(jsonData, rp).v)

\* C8 as stated: while the same document stays loaded, the visibleCount of
\* a mounted array node never decreases.
C8_NeverDecreases ==
  [][(SameDocument /\ isLargeFile) =>
       \A rp \in ArrayNodes \cap DOMAIN nodes' :
         nodes'[rp].visibleCount >= nodes[rp].visibleCount]_vars

\* C8 amended: while the same document stays loaded, the visibleCount of a
\* mounted array node decreases only in a step that changes the node's own
\* expansion state, and then it is reset to one page.
C8_DecreasesOnlyOnOwnToggle ==
  [][(SameDocument /\ isLargeFile) =>
       \A rp \in ArrayNodes \cap DOMAIN nodes' :
         \/ nodes'[rp].visibleCount >= nodes[rp].visibleCount
         \/ /\ nodes'[rp].isExpanded # nodes[rp].isExpanded
            /\ nodes'[rp].visibleCount = PAGE_SIZE]_vars

\* An array node shows more than one page while a query is typed and rows
\* have been clicked.
C8_Witness ==
  /\ isLargeFile
  /\ clicked
  /\ searchQuery # <<>>
  /\ \E rp \in ArrayNodes : nodes[rp].visibleCount > PAGE_SIZE

\* C9: under the large-file flag an array node that mounts or is expanded
\* starts with a visibleCount of one page; Load more sets it to
\* min(previous + 100, length); the button is offered exactly when
\* visibleCount is below the length; and the top-level array of
\* ScenarioLength elements first shows 100 of them with ScenarioLength - 100
\* remaining.
C9_PagedWindow ==
  /\ [](isLargeFile =>
          \A rp \in ArrayNodes :
            LET data == DataAt(jsonData, rp) IN
            nodes[rp].isExpanded =>
              /\ canLoadMore(rp) <=> nodes[rp].visibleCount < Len(data.v)
              /\ nodes[rp].visibleCount >= PAGE_SIZE
              /\ (jsonData = DocLong /\ nodes[rp].visibleCount = PAGE_SIZE) =>
                   /\ Exposed(jsonData, isLargeFile, nodes, rp) = 100
                   /\ Remaining(data, nodes[rp].visibleCount)
                        = ScenarioLength - 100)
  /\ [][isLargeFile' =>
          \A rp \in DOMAIN nodes' :
            IsArrayValue(DataAt(jsonData', rp)) =>
              /\ (rp \notin DOMAIN nodes \/ ~nodes[rp].isExpanded) =>
                   nodes'[rp].visibleCount = PAGE_SIZE
              /\ (rp \in DOMAIN nodes /\ LoadMore(rp)) =>
                   nodes'[rp].visibleCount =
                     Min(nodes[rp].visibleCount + PAGE_SIZE,
                         Len(DataAt(jsonData, rp).v))]_vars

\* One Load more on the top-level array of the scenario: 200 elements shown.
C9_Witness ==
  /\ jsonData = DocLong
  /\ isLargeFile
  /\ nodes[<<>>].isExpanded
  /\ nodes[<<>>].visibleCount = 2 * PAGE_SIZE
  /\ Exposed(jsonData, isLargeFile, nodes, <<>>) = 2 * PAGE_SIZE

\* C10: when a load completes and the tree of the new document is shown,
\* every node is in its policy default state and every array node under
\* the large-file flag shows one page.
C10_LoadResetsTree ==
  [][(\E i \in 1..Len(loads) : ReaderOnLoad(i)) =>
       \A rp \in DOMAIN nodes' :
         /\ nodes'[rp].isExpanded = shouldAutoExpand(isLargeFile', Len(rp))
         /\ (isLargeFile' /\ IsArrayValue(DataAt(jsonData', rp))) =>
              nodes'[rp].visibleCount = PAGE_SIZE]_vars

\* The nodes that mount in the step.
Mounting == DOMAIN nodes' \ DOMAIN nodes

\* C11: a node that mounts at depth d and is not force-expanded by a search
\* match is expanded exactly when d < 1 under the large-file flag and d < 2
\* without it; when the tree of the small document
\* {"a": {"b": 1, "c": [1, 2, 3]}} mounts with no search results, the root
\* and a are expanded and c is collapsed.
C11_DefaultExpansion ==
  [][/\ \A rp \in Mounting :
          ~(searchQuery' # <<>> /\ nodes'[rp].isSearchMatch) =>
            (nodes'[rp].isExpanded <=>
               IF fileSize' > LARGE_FILE_THRESHOLD THEN Len(rp) < 1
               ELSE Len(rp) < 2)
     /\ (/\ nodes = NoNodes
         /\ jsonData' = DocNested
         /\ TreeShown(jsonData', isLoading')
         /\ fileSize' <= LARGE_FILE_THRESHOLD
         /\ searchResults' = <<>>) =>
          /\ nodes'[<<>>].isExpanded
          /\ nodes'[<<Sa>>].isExpanded
          /\ <<Sa, Sc>> \in DOMAIN nodes'
          /\ ~nodes'[<<Sa, Sc>>].isExpanded]_vars

\* The tree of the small document has mounted and nothing was clicked: a
\* is open, c is rendered and closed.
C11_Witness ==
  /\ jsonData = DocNested
  /\ ~isLargeFile
  /\ ~clicked
  /\ searchResults = <<>>
  /\ <<Sa, Sc>> \in DOMAIN nodes
  /\ nodes[<<Sa>>].isExpanded
  /\ ~nodes[<<Sa, Sc>>].isExpanded

\* C12: at most one search timeout is pending, and it is the one of the
\* current query and document; a change of the query leaves no earlier
\* timeout pending; and the results change only to the results of the query
\* that is current at that moment.
C12_DebounceKeepsLatest ==
  /\ [](/\ Cardinality(searchTimer) <= 1
        /\ \A timer \in searchTimer :
             timer.query = searchQuery /\ timer.data = jsonData)
  /\ [][/\ searchQuery' # searchQuery =>
             \A timer \in searchTimer' : timer.query = searchQuery'
        /\ searchResults' # searchResults =>
             searchResults' =
               IF Truthy(jsonData) /\ trim(searchQuery) # <<>>
               THEN searchInData(jsonData, searchQuery)
               ELSE <<>>]_vars

\* The query was changed while a timeout was pending: the pending timeout
\* is the one of the new query, and results of an earlier query are shown.
C12_Witness ==
  /\ searchResults # <<>>
  /\ \E timer \in searchTimer :
       /\ timer.superseding
       /\ timer.query # <<>>
       /\ searchResults # searchInData(jsonData, timer.query)

\* The key path of the parent of the node with key path rp.
ParentOf(rp) == SubSeq(rp, 1, Len(rp) - 1)

\* C13: every entry of an expanded object node is mounted as its child,
\* with the large-file flag and without it; without the flag every element
\* of an expanded array node is mounted as its child; and no child of a
\* collapsed or primitive node is mounted.
C13_ExposedChildren ==
  \A rp \in DOMAIN nodes :
    LET data == DataAt(jsonData, rp) IN
    /\ (IsObjectValue(data) /\ nodes[rp].isExpanded) =>
         \A i \in 1..Len(data.v) : Append(rp, data.v[i][1]) \in DOMAIN nodes
    /\ (IsArrayValue(data) /\ nodes[rp].isExpanded /\ ~isLargeFile) =>
         \A i \in 1..Len(data.v) :
           Append(rp, NatToString(i - 1)) \in DOMAIN nodes
    /\ rp # <<>> =>
         /\ ParentOf(rp) \in DOMAIN nodes
         /\ nodes[ParentOf(rp)].isExpanded
         /\ ~IsPrimitiveValue(DataAt(jsonData, ParentOf(rp)))

\* In a small file the array c of {"a": {"b": 1, "c": [1, 2, 3]}} is
\* expanded, below the expanded objects root and a.
C13_Witness ==
  /\ jsonData = DocNested
  /\ ~isLargeFile
  /\ <<Sa, Sc>> \in DOMAIN nodes
  /\ nodes[<<Sa, Sc>>].isExpanded
  /\ <<Sa, Sc, <<"2">>>> \in DOMAIN nodes

\* The node with key path rp is force-expanded by a search match in the
\* step.
ForcedInStep(rp) ==
  searchQuery' # <<>> /\ nodes'[rp].isSearchMatch /\ nodes'[rp].isExpanded

\* C14: while the same document stays loaded, the expansion state of a node
\* changes only in a click on its own row or by a forced expansion; and a
\* node that the collapse of an ancestor has hidden comes back, when the
\* ancestor is expanded again, in the state it had.
C14_ExpansionChangesOnlyByOwnToggle ==
  [][SameDocument =>
       /\ \A rp \in DOMAIN nodes \cap DOMAIN nodes' :
            nodes'[rp].isExpanded # nodes[rp].isExpanded =>
              toggleExpanded(rp) \/ ForcedInStep(rp)
       /\ \A rp \in Mounting \cap hidden.paths :
            \/ nodes'[rp].isExpanded
                 # shouldAutoExpand(isLargeFile, Len(rp))
            \/ ForcedInStep(rp)]_vars

\* The places of a document that lie within the depth and breadth limits:
\* obj at `path`, `depth` levels below the root, and everything below it.
\* key is the object key under which the value is stored, or <<>> with
\* viaKey false for the root and for array elements.
RECURSIVE Located(_, _, _, _, _)
Located(obj, path, depth, viaKey, key) ==
  IF depth > MAX_DEPTH THEN {}
  ELSE {[path |-> path, value |-> obj, viaKey |-> viaKey, key |-> key]}
       \cup
       (IF IsPrimitiveValue(obj) THEN {}
        ELSE UNION {Located(ChildData(obj, i),
                            Append(path, ChildName(obj, i)), depth + 1,
                            IsObjectValue(obj),
                            IF IsObjectValue(obj) THEN obj.v[i][1] ELSE <<>>) :
                      i \in 1..Min(Len(obj.v), MAX_BREADTH)})

\* The results as a set of <<type, path>> pairs.
Found == {<<searchResults[i].type, searchResults[i].path>> :
            i \in 1..Len(searchResults)}

\* C15: when the result cap is not reached, the results of a non-blank
\* query over a loaded document hold a key match for every object key
\* within the limits that contains the query, and a value match for every
\* primitive value (null, boolean, number, string) within the limits whose
\* string form contains the query, both without regard to case; and no value
\* match for a container.
C15_SearchComplete ==
  (/\ SearchRan
   /\ Truthy(jsonData)
   /\ trim(searchQuery) # <<>>
   /\ Len(searchResults) < MAX_RESULTS) =>
    \A place \in Located(jsonData, <<>>, 0, FALSE, <<>>) :
      /\ (place.viaKey /\ ContainsCI(place.key, searchQuery)) =>
           <<"key", place.path>> \in Found
      /\ (/\ IsPrimitiveValue(place.value)
          /\ ContainsCI(StringOf(place.value), searchQuery)) =>
           <<"value", place.path>> \in Found
      /\ ~IsPrimitiveValue(place.value) =>
           <<"value", place.path>> \notin Found

\* The position of the place at `path` below value: the 1-based positions,
\* among their siblings, of the nodes on the way down.
RECURSIVE PositionOf(_, _)
PositionOf(value, path) ==
  IF path = <<>> THEN <<>>
  ELSE LET name == Head(path)
           i == IF IsArrayValue(value)
                THEN StringToNat(SubSeq(name, 2, Len(name) - 1)) + 1
                ELSE CHOOSE k \in 1..Len(value.v) : value.v[k][1] = name
       IN <<i>> \o PositionOf(ChildData(value, i), Tail(path))

\* Position a comes before position b in pre-order: a is an ancestor of b,
\* or a branches off to an earlier sibling.
Precedes(a, b) ==
  \/ Len(a) < Len(b) /\ SubSeq(b, 1, Len(a)) = a
  \/ \E k \in 1..Min(Len(a), Len(b)) :
       a[k] < b[k] /\ SubSeq(a, 1, k - 1) = SubSeq(b, 1, k - 1)

\* C16: each result comes before the next one in pre-order (object entries
\* in key order, array elements by index), a key match before the value
\* match of the same entry; and the query "42" over
\* {"x": 42, "y": "value42"} yields exactly the value matches at x and y, in
\* this order.
C16_PreOrderResults ==
  SearchRan =>
    /\ \A i \in 1..(Len(searchResults) - 1) :
         LET a == PositionOf(jsonData, searchResults[i].path)
             b == PositionOf(jsonData, searchResults[i + 1].path)
         IN \/ Precedes(a, b)
            \/ /\ a = b
               /\ searchResults[i].type = "key"
               /\ searchResults[i + 1].type = "value"
    /\ (jsonData = DocScenario /\ searchQuery = <<"4", "2">>) =>
         /\ Len(searchResults) = 2
         /\ searchResults[1].type = "value" /\ searchResults[1].path = <<Sx>>
         /\ searchResults[2].type = "value" /\ searchResults[2].path = <<Sy>>

\* The query "42" was searched in {"x": 42, "y": "value42"}.
C16_Witness ==
  /\ SearchRan
  /\ jsonData = DocScenario
  /\ searchQuery = <<"4", "2">>
  /\ Len(searchResults) = 2

\* The values of the lines of a text that are JSON texts, in line order.
RECURSIVE GoodValues(_)
GoodValues(lines) ==
  IF lines = <<>> THEN <<>>
  ELSE IF Head(lines).k = "json"
       THEN <<Head(lines).v>> \o GoodValues(Tail(lines))
       ELSE GoodValues(Tail(lines))

\* The number of lines of a text that are neither blank nor JSON texts.
BadCount(lines) == Cardinality({i \in 1..Len(lines) : lines[i].k = "bad"})

\* The file of the i-th load in flight is a JSONL file.
JsonlLoad(i) == endsWith(toLowerCase(FileTable[loads[i].file].name), ExtJsonl)

\* C17: when the text of a JSONL file arrives, the document becomes the array
\* of the values of its lines that parse, in line order; if some lines fail,
\* their number is reported in the error message and the tree is shown; if
\* some line fails and none parses, no document is loaded and no tree shown.
C17_JsonlLoad ==
  [][\A i \in 1..Len(loads) :
       (ReaderOnLoad(i) /\ JsonlLoad(i)) =>
         LET lines == FileTable[loads[i].file].lines
             good == GoodValues(lines)
             bad == BadCount(lines)
         IN IF bad > 0 /\ good = <<>>
            THEN jsonData' = Null /\ nodes' = NoNodes
            ELSE /\ jsonData' = JArr(good)
                 /\ bad > 0 => /\ error'.kind = "invalid lines skipped"
                               /\ error'.count = bad
                               /\ nodes' # NoNodes]_vars

\* Three lines with the second invalid: two records loaded, one line reported
\* as skipped, the tree on screen.
C17_Witness ==
  /\ jsonData = JArr(<<DocScenario, JNum(7)>>)
  /\ error = [kind |-> "invalid lines skipped", count |-> 1]
  /\ nodes # NoNodes

\* Queries that are empty or consist only of white space.
BlankQueries == {<<>>, <<" ">>, <<" ", " ">>}

\* C18: a search with an empty or white-space-only query, or with no
\* document loaded, returns the empty sequence, the timeout's callback
\* displays the empty sequence for it, and once the pending search has run
\* in such a case the displayed results are empty.
C18_BlankSearchIsEmpty ==
  /\ \A q \in BlankQueries :
       searchInData(jsonData, q) = <<>> /\ TimeoutResults(jsonData, q) = <<>>
  /\ \A q \in Queries \cup BlankQueries :
       searchInData(Null, q) = <<>> /\ TimeoutResults(Null, q) = <<>>
  /\ (SearchRan /\ (trim(searchQuery) = <<>> \/ jsonData = Null)) =>
       searchResults = <<>>

\* The query was cleared and its search has run over a loaded large
\* document: the results are empty, while a node below the root, which
\* neither the policy nor a click opened, is still expanded by the matches
\* displayed before.
C18_Witness ==
  /\ SearchRan
  /\ jsonData # Null
  /\ isLargeFile
  /\ searchQuery = <<>>
  /\ searchResults = <<>>
  /\ ~clicked
  /\ \E rp \in DOMAIN nodes : Len(rp) >= 1 /\ nodes[rp].isExpanded

\* The results of the current document and query are on display.
ResultsCurrent == searchResults = searchInData(jsonData, searchQuery)

InspectedAt(run, d) ==
  Cardinality({i \in 1..Len(run.inspected) : Len(run.inspected[i].path) = d})

\* C20: a search run ends after finitely many calls, each on a node of the
\* document and no two on the same node; it inspects no node deeper than
\* MAX_DEPTH, no node beyond the first MAX_BREADTH children of a container
\* and no node once MAX_RESULTS matches are found, so that it inspects at
\* most one node at depth 0 and, at each further depth up to MAX_DEPTH, at
\* most MAX_BREADTH times as many as one level up.
C20_BoundedInspection ==
  SearchRan =>
       LET run == inspectInData(jsonData, searchQuery)
           n == Len(run.inspected)
       IN /\ SliceResults(run.results) = searchResults
          /\ Cardinality({run.inspected[i].path : i \in 1..n}) = n
          /\ \A i \in 1..n :
               LET call == run.inspected[i]
                   place == PositionOf(jsonData, call.path)
               IN /\ Resolve(jsonData, call.path, FALSE).found
                  /\ Len(call.path) <= MAX_DEPTH
                  /\ \A k \in 1..Len(place) : place[k] <= MAX_BREADTH
                  /\ call.found < MAX_RESULTS
          /\ InspectedAt(run, 0) <= 1
          /\ \A d \in 1..MAX_DEPTH :
               InspectedAt(run, d) <= MAX_BREADTH * InspectedAt(run, d - 1)
          /\ \A d \in (MAX_DEPTH + 1)..(MAX_DEPTH + 3) : InspectedAt(run, d) = 0

\* "k" was searched in an array of MAX_BREADTH + 1 elements: the run
\* inspected the array and its first MAX_BREADTH elements, not the last one.
C20_Witness ==
  /\ SearchRan
  /\ jsonData = DocWide
  /\ searchQuery = Sk
  /\ Len(jsonData.v) = MAX_BREADTH + 1
  /\ Len(inspectInData(jsonData, searchQuery).inspected) = MAX_BREADTH + 1

\* C21: no returned match, key or value, lies more than MAX_DEPTH levels
\* below the root: the path of every match has at most MAX_DEPTH segments.
C21_MatchDepthWithinCap ==
  SearchRan => \A i \in 1..Len(searchResults) :
                 Len(searchResults[i].path) <= MAX_DEPTH

PathStringsAgree ==
  \A rp \in DOMAIN nodes : \A i \in 1..Len(searchResults) :
    searchResults[i].path = NamesAt(jsonData, rp) =>
      searchResults[i].pathString
        = NodePathString(isJsonlFile, jsonData, NamesAt(jsonData, rp))

\* Matches at different locations have different path strings.
MatchPathStringsDistinct ==
  \A i, j \in 1..Len(searchResults) :
    searchResults[i].path # searchResults[j].path =>
      searchResults[i].pathString # searchResults[j].pathString

\* Nodes at different locations have different path strings.
NodePathStringsDistinct ==
  \A rp, rq \in DOMAIN nodes :
    rp # rq =>
      NodePathString(isJsonlFile, jsonData, NamesAt(jsonData, rp))
        # NodePathString(isJsonlFile, jsonData, NamesAt(jsonData, rq))

\* C23: the path string of a match equals the path string the node mounted
\* at the match's location computes for itself, and different locations
\* have different path strings.
C23_OnePathStringPerLocation ==
  SearchRan =>
    PathStringsAgree /\ MatchPathStringsDistinct /\ NodePathStringsDistinct

\* The node at the location of match m is on screen: it is mounted, that is,
\* every container above it is expanded and shows it among its children.
OnScreen(m) == \E rp \in DOMAIN nodes : NamesAt(jsonData, rp) = m.path

\* C24: once the results of a search are applied to the tree, and no row
\* was clicked, the node of every returned match is on screen.
C24_MatchesReachable ==
  (SearchRan /\ nodes # NoNodes /\ ~clicked) =>
    \A i \in 1..Len(searchResults) : OnScreen(searchResults[i])

\* C25: with a document loaded, if the query stays the same from some moment
\* on, then from some moment on no search is pending and the displayed
\* results are those of the document and that query, the empty sequence
\* when the query is blank.
C25_ResultsSettle ==
  \A q \in Queries :
    <>[](searchQuery = q) =>
      <>[](/\ SearchRan
           /\ ResultsCurrent
           /\ trim(q) = <<>> => searchResults = <<>>)

\* A query was typed over a loaded document, its search has run and its
\* matches are on display.
C25_Witness ==
  /\ jsonData # Null
  /\ searchQuery # <<>>
  /\ SearchRan
  /\ searchResults # <<>>
  /\ ResultsCurrent

\* The file is neither JSON nor JSONL, by its type and by its name.
NotJson(f) ==
  /\ FileTable[f].type # "application/json"
  /\ ~endsWith(toLowerCase(FileTable[f].name), ExtJson)
  /\ ~endsWith(toLowerCase(FileTable[f].name), ExtJsonl)

\* The text of the i-th load in flight is one document that does not parse.
WholeParseFails(i) ==
  /\ ~JsonlLoad(i)
  /\ ~ParseWhole(FileTable[loads[i].file].lines).ok

\* No document is loaded, no tree is shown, an error message is set and the
\* loading flag is cleared, after the step.
FailedAfter ==
  /\ jsonData' = Null
  /\ nodes' = NoNodes
  /\ error' # NoError
  /\ ~isLoading'

\* C26: when the text of a selected file arrives and does not parse as one
\* JSON document, and when a file that is neither JSON nor JSONL is dropped,
\* afterwards no document is loaded, no tree is shown, an error message is
\* set and the loading flag is cleared.
C26_FailedLoadLeavesNothing ==
  [][/\ \A i \in 1..Len(loads) :
          (ReaderOnLoad(i) /\ WholeParseFails(i)) => FailedAfter
     /\ \A f \in FileIds :
          (handleDrop(f) /\ NotJson(f)) => FailedAfter]_vars

\* C27: whenever results are on display (the search box is rendered and the
\* results are not empty), they are the results of the current document and
\* the current query.
C27_DisplayedResultsCurrent ==
  (SearchBoxShown /\ searchResults # <<>>) => ResultsCurrent

\* The document the text of file f holds: for a JSONL file the array of the
\* values of its lines, for another file the value of its one JSON text.
ContentOf(f) ==
  LET file == FileTable[f]
      good == GoodValues(file.lines)
  IN IF endsWith(toLowerCase(file.name), ExtJsonl) THEN JArr(good)
     ELSE IF Len(good) = 1 /\ BadCount(file.lines) = 0 THEN good[1]
     ELSE Null

\* C28: once no load is in flight, the document on display, if any, is the
\* content of the file given last to processFile, the file whose name and
\* size are displayed.
C28_ShowsLatestFile ==
  (loads = <<>> /\ nodes # NoNodes) =>
    \E f \in FileIds :
      /\ FileTable[f].name = fileName
      /\ FileTable[f].size = fileSize
      /\ jsonData = ContentOf(f)

\* A file was loaded without an error and nothing is in flight.
LoadSucceeded ==
  fileName # <<>> /\ error = NoError /\ ~isLoading /\ loads = <<>>

\* C29: after the load of a valid JSON document, whatever its root value,
\* once the search of the loaded document has run, the tree is displayed
\* with that root, and a query that the text of a primitive root value
\* contains has found it.
C29_FalsyRootIsLoaded ==
  (LoadSucceeded /\ SearchRan) =>
    /\ <<>> \in DOMAIN nodes
    /\ (/\ trim(searchQuery) # <<>>
        /\ IsPrimitiveValue(jsonData)
        /\ ContainsCI(StringOf(jsonData), searchQuery)) =>
         searchResults # <<>>

====
